---- MODULE Spec2Model ----
(***************************************************************************)
(* A model of gitifyhg's remote helper (gitifyhg.py): the line protocol    *)
(* reader GitRemoteParser and the session HGRemote with its dispatch loop  *)
(* and the capabilities / list handlers.  Text is modelled as TLA+ strings *)
(* (sequences of characters); standard input is one character stream.      *)
(* Spec and SpecList are sessions from process() on, SpecBuild starts      *)
(* before build_repo, SpecRelist lets the mirror change under a session,   *)
(* SpecPeek and SpecParser call the parser's methods on their own.         *)
(***************************************************************************)
EXTENDS Integers, Sequences, FiniteSets, TLC

(***************************************************************************)
(* Bounds of the model.                                                    *)
(***************************************************************************)
\* command units in the input of a session (specification Spec)
MaxUnits == 3
\* command units in the input of a session (specification SpecList)
MaxListUnits == 1
\* named branches, bookmarks and tags (besides tip) of the mirror, together
MaxRefs == 2
\* marks the store holds before the import/export handlers stop adding
MaxMarks == 2

(***************************************************************************)
(* Python string methods used by the program.                              *)
(***************************************************************************)
Char(s, i) == SubSeq(s, i, i)

IsSpace(c) == c \in {" ", "\n", "\t"}

RECURSIVE lstrip(_)
lstrip(s) ==
    IF Len(s) > 0 /\ IsSpace(Char(s, 1)) THEN lstrip(SubSeq(s, 2, Len(s))) ELSE s

RECURSIVE rstrip(_)
rstrip(s) ==
    IF Len(s) > 0 /\ IsSpace(Char(s, Len(s))) THEN rstrip(SubSeq(s, 1, Len(s) - 1)) ELSE s

\* str.strip()
strip(s) == rstrip(lstrip(s))

RECURSIVE TokenEnd(_, _)
TokenEnd(s, i) ==
    IF i > Len(s) \/ IsSpace(Char(s, i)) THEN i - 1 ELSE TokenEnd(s, i + 1)

\* line.split()[0]: the first whitespace-separated token (line is not blank)
split0(s) == LET t == lstrip(s) IN SubSeq(t, 1, TokenEnd(t, 1))

\* str.startswith(prefix)
startswith(s, prefix) ==
    Len(s) >= Len(prefix) /\ SubSeq(s, 1, Len(prefix)) = prefix

RECURSIVE NewlinePos(_, _)
NewlinePos(s, i) ==
    IF i > Len(s) THEN Len(s)
    ELSE IF Char(s, i) = "\n" THEN i
    ELSE NewlinePos(s, i + 1)

\* sys.stdin.readline(): the characters up to and including the first newline,
\* everything left when there is no newline, "" at end of stream
readline(stream) ==
    LET n == NewlinePos(stream, 1)
    IN  [text |-> SubSeq(stream, 1, n), rest |-> SubSeq(stream, n + 1, Len(stream))]

RECURSIVE hg_to_git_spaces(_)
\* util.hg_to_git_spaces: every space becomes the placeholder sequence
hg_to_git_spaces(name) ==
    IF Len(name) = 0 THEN ""
    ELSE (IF Char(name, 1) = " " THEN "___" ELSE Char(name, 1))
         \o hg_to_git_spaces(SubSeq(name, 2, Len(name)))

\* all orders in which a dict or list with these keys can be iterated
Orders(S) ==
    {s \in [1..Cardinality(S) -> S] : \A i, j \in 1..Cardinality(S) : i # j => s[i] # s[j]}

RECURSIVE Concat(_)
Concat(ss) == IF ss = <<>> THEN "" ELSE Head(ss) \o Concat(Tail(ss))

SeqsUpTo(S, n) == UNION {[1..k -> S] : k \in 0..n}

(***************************************************************************)
(* The session's fixed strings.                                            *)
(***************************************************************************)
\* sys.argv[1]
alias == "o"
\* 'refs/hg/%s' % alias
prefix == "refs/hg/" \o alias
\* remotedir.joinpath('marks-git')
marks_git_path == ".git/hg/u/marks-git"
\* the commands the dispatch loop accepts
Commands == {"capabilities", "list", "import", "export"}

(***************************************************************************)
(* The Mercurial mirror, as far as the handlers look at it.                *)
(***************************************************************************)
\* readcurrent() found no active bookmark
NoBookmark == ""
nullrev == "null"
BranchNames == {"default", "x", "a b"}
BookmarkNames == {"master", "default", "a b", "branches/x", "branches/default"}
TagNames == {"v 1", "default"}

\* repo.branchheads(branch, closed=True)
branchheads(r, branch) == IF branch \in r.branchmap THEN {"head:" \o branch} ELSE {}

\* repo[bookmark] for a bookmark of the mirror
bookmarknode(r, bookmark) == "bm:" \o bookmark

\* 'name' in repo: the name resolves as a bookmark, a tag or a named branch
inrepo(r, name) == name \in r.bookmarks \/ name \in r.tagslist \/ name \in r.branchmap

\* the mirrors a clone, a pull or an update can leave behind: every bookmark,
\* tag and working copy parent needs a revision, every revision is on a branch
Mirrors ==
    {r \in [branchmap : {B \in SUBSET BranchNames : Cardinality(B) <= MaxRefs},
            bookmarks : {B \in SUBSET BookmarkNames : Cardinality(B) <= MaxRefs - 1},
            tagslist : {{"tip"} \cup T : T \in {T \in SUBSET TagNames : Cardinality(T) <= MaxRefs - 1}},
            current : BookmarkNames \cup {NoBookmark},
            dirstate_branch : BranchNames,
            dirstate_parent : {nullrev} \cup {"head:" \o b : b \in BranchNames}] :
        /\ Cardinality(r.branchmap) + Cardinality(r.bookmarks) + Cardinality(r.tagslist) - 1
              <= MaxRefs
        /\ r.current \in r.bookmarks \cup {NoBookmark}
        /\ r.dirstate_parent \in {nullrev} \cup {"head:" \o b : b \in r.branchmap}
        /\ r.branchmap = {} => r.bookmarks = {} /\ r.tagslist = {"tip"}}

EmptyMirror ==
    [branchmap |-> {}, bookmarks |-> {}, tagslist |-> {"tip"}, current |-> NoBookmark,
     dirstate_branch |-> "default", dirstate_parent |-> nullrev]

\* an empty mirror, a fresh clone of a repository with a default branch and a
\* bookmark, and the same after an update to the bookmark
FewMirrors ==
    {EmptyMirror,
     [branchmap |-> {"default"}, bookmarks |-> {"master"}, tagslist |-> {"tip"},
      current |-> NoBookmark, dirstate_branch |-> "default", dirstate_parent |-> nullrev],
     [branchmap |-> {"default", "x"}, bookmarks |-> {"a b"}, tagslist |-> {"tip", "v 1"},
      current |-> "a b", dirstate_branch |-> "default", dirstate_parent |-> "head:default"]}

(***************************************************************************)
(* The input git can send: command units, then the end of the session.     *)
(***************************************************************************)
CommandUnits ==
    {"capabilities\n",
     "list\n",
     "list for-push\n",
     "import HEAD\nimport refs/heads/branches/x\n\n",
     "export\ncommit refs/heads/branches/x\ndone\n",
     "fetch abc refs/heads/master\n"}

\* end of stream, a line of blanks with input behind it
Endings == {"", "  \nlist\n"}

Inputs(n, endings) == {Concat(us) \o e : us \in SeqsUpTo(CommandUnits, n), e \in endings}

VARIABLES
    input,            \* history: everything git writes to the helper's stdin
    stdin,            \* the part of the input not read yet
    line,             \* parser.line
    peek_stack,       \* parser.peek_stack
    pc,               \* where HGRemote.process stands
    repo,             \* the mirror
    marks_git_exists, \* self.marks_git_path.exists()
    marks,            \* self.marks in memory: the number of marks assigned
    marks_stored,     \* the mark store on disk
    nstore,           \* history: calls of self.marks.store()
    headnode,         \* self.headnode
    branches,         \* self.branches
    bookmarks,        \* self.bookmarks
    outbuf,           \* lines written to actual_stdout and not flushed
    stdout,           \* lines git has received
    response,         \* history: the lines the last handler wrote
    dispatched,       \* history: the lines dispatched, with their handlers
    stderr,           \* the message of die()
    exit_code,        \* the exit status once the process has ended
    build,            \* history: what build_repo found and the Mercurial calls it made
    trace,            \* history: the parser methods called, with what they returned
    block,            \* the generator of read_block, while one is being iterated
    ret               \* what the last parser method called on its own returned

vars == <<input, stdin, line, peek_stack, pc, repo, marks_git_exists, marks, marks_stored,
          nstore, headnode, branches, bookmarks, outbuf, stdout, response, dispatched,
          stderr, exit_code, build, trace, block, ret>>

parser_vars == <<stdin, line, peek_stack>>
session_vars == <<headnode, branches, bookmarks>>
marks_vars == <<marks, marks_stored, nstore>>
aux_vars == <<build, trace, block, ret>>

NoLine == "<unset>"
Running == -1

\* the Mercurial calls of build_repo, with the arguments that matter
hg_clone == [op |-> "clone", update |-> FALSE, pull |-> TRUE]
hg_repository == [op |-> "repository"]
hg_peer == [op |-> "peer"]
repo_pull == [op |-> "pull", heads |-> "None", force |-> TRUE]

\* build_repo: the calls it makes when all of them succeed
build_calls(exists) ==
    IF exists THEN <<hg_repository, hg_peer, repo_pull>> ELSE <<hg_clone>>

NoBlock == [active |-> FALSE]
NoRet == [op |-> ""]

\* the parser before its constructor has run
NoParser ==
    /\ stdin = input
    /\ line = NoLine
    /\ peek_stack = <<>>
    /\ trace = <<>>
    /\ block = NoBlock
    /\ ret = NoRet

\* HGRemote.__init__: the state after construction, before process()
InitSession ==
    /\ build = [existed |-> TRUE, calls |-> build_calls(TRUE), failed |-> FALSE]
    /\ trace = <<>>
    /\ block = NoBlock
    /\ ret = NoRet
    /\ stdin = input
    /\ line = NoLine
    /\ peek_stack = <<>>
    /\ pc = "start"
    /\ marks = 0
    /\ marks_stored = marks
    /\ nstore = 0
    /\ headnode = <<>>
    /\ branches = <<>>
    /\ bookmarks = <<>>
    /\ outbuf = <<>>
    /\ stdout = <<>>
    /\ response = <<>>
    /\ dispatched = <<>>
    /\ stderr = ""
    /\ exit_code = Running

Init ==
    /\ input \in Inputs(MaxUnits, Endings)
    /\ repo \in FewMirrors
    /\ marks_git_exists \in BOOLEAN
    /\ InitSession

InitList ==
    /\ input \in Inputs(MaxListUnits, {""})
    /\ repo \in Mirrors
    /\ marks_git_exists = FALSE
    /\ InitSession

(***************************************************************************)
(* GitRemoteParser.                                                        *)
(***************************************************************************)
\* GitRemoteParser.read_line, as a function of the parser's state: the new
\* current line, lookahead buffer and input stream
read_line(ps, stream) ==
    IF ps # <<>>
    THEN [line |-> Head(ps), peek_stack |-> Tail(ps), stdin |-> stream]
    ELSE LET r == readline(stream)
         IN  [line |-> strip(r.text), peek_stack |-> ps, stdin |-> r.rest]

\* the parser state after read_line()
SetParser(p) ==
    /\ line' = p.line
    /\ peek_stack' = p.peek_stack
    /\ stdin' = p.stdin

\* parser = GitRemoteParser(): an empty lookahead buffer and the first line read
ParserInit ==
    /\ pc = "start"
    /\ SetParser(read_line(<<>>, stdin))
    /\ pc' = "loop"
    /\ UNCHANGED <<input, aux_vars, repo, marks_git_exists, marks_vars, session_vars, outbuf, stdout,
                   response, dispatched, stderr, exit_code>>

(***************************************************************************)
(* HGRemote.do_capabilities.                                               *)
(***************************************************************************)
\* variant: the import-marks line is written whether or not the file exists
capabilities_lines_always_import(exists) ==
    <<"import",
      "export",
      "refspec refs/heads/branches/*:" \o prefix \o "/branches/*",
      "refspec refs/heads/*:" \o prefix \o "/bookmarks/*",
      "refspec refs/tags/*:" \o prefix \o "/tags/*",
      "*import-marks " \o marks_git_path,
      "*export-marks " \o marks_git_path,
      "">>

\* variant: the export-marks line is written before the import-marks line
capabilities_lines_export_first(exists) ==
    <<"import",
      "export",
      "refspec refs/heads/branches/*:" \o prefix \o "/branches/*",
      "refspec refs/heads/*:" \o prefix \o "/bookmarks/*",
      "refspec refs/tags/*:" \o prefix \o "/tags/*",
      "*export-marks " \o marks_git_path>>
    \o (IF exists THEN <<"*import-marks " \o marks_git_path>> ELSE <<>>)
    \o <<"">>

\* the lines of a capabilities response
capabilities_lines(exists) ==
    <<"import",
      "export",
      "refspec refs/heads/branches/*:" \o prefix \o "/branches/*",
      "refspec refs/heads/*:" \o prefix \o "/bookmarks/*",
      "refspec refs/tags/*:" \o prefix \o "/tags/*">>
    \o (IF exists THEN <<"*import-marks " \o marks_git_path>> ELSE <<>>)
    \o <<"*export-marks " \o marks_git_path>>
    \o <<"">>

\* a handler that reads the line after its command
do_capabilities_reads_line ==
    /\ outbuf' = outbuf \o capabilities_lines(marks_git_exists)
    /\ response' = capabilities_lines(marks_git_exists)
    /\ SetParser(read_line(peek_stack, stdin))
    /\ UNCHANGED <<session_vars, marks_vars, repo, marks_git_exists>>

do_capabilities ==
    /\ outbuf' = outbuf \o capabilities_lines(marks_git_exists)
    /\ response' = capabilities_lines(marks_git_exists)
    /\ UNCHANGED <<parser_vars, session_vars, marks_vars, repo, marks_git_exists>>

(***************************************************************************)
(* HGRemote.do_list.                                                       *)
(***************************************************************************)
\* self.repo[name] for a name that is in the repository
lookup(r, name) ==
    IF name \in r.bookmarks THEN bookmarknode(r, name)
    ELSE IF name \in r.tagslist THEN "tag:" \o name
    ELSE "head:" \o name

\* variant: the early return of the empty answer is missing
list_is_never_empty(r) == FALSE

\* the empty answer: no bookmark is active, the working copy is at the null
\* revision and nothing is called 'default'
list_is_empty(r) ==
    /\ r.current = NoBookmark
    /\ r.dirstate_parent = nullrev
    /\ ~inrepo(r, "default")

\* variant: the renaming of default to master is applied to the bookmark too
list_headnode_renames_bookmark(r) ==
    IF r.current # NoBookmark
    THEN <<IF r.current # "default" THEN r.current ELSE "master", bookmarknode(r, r.current)>>
    ELSE <<IF r.dirstate_branch # "default" THEN r.dirstate_branch ELSE "master",
           IF r.dirstate_parent # nullrev THEN r.dirstate_parent ELSE lookup(r, "default")>>

\* self.headnode as do_list sets it
list_headnode(r) ==
    IF r.current # NoBookmark
    THEN <<r.current, bookmarknode(r, r.current)>>
    ELSE <<IF r.dirstate_branch # "default" THEN r.dirstate_branch ELSE "master",
           IF r.dirstate_parent # nullrev THEN r.dirstate_parent ELSE lookup(r, "default")>>

\* self.bookmarks after the update from listbookmarks(): entries are added or
\* overwritten, none is removed
list_bookmarks(r, cache) ==
    [b \in (DOMAIN cache) \cup r.bookmarks |->
        IF b \in r.bookmarks THEN bookmarknode(r, b) ELSE cache[b]]

\* self.branches after the update from branchmap(): entries are added or
\* overwritten for the branches that have heads, none is removed
list_branches(r, cache) ==
    LET withheads == {b \in r.branchmap : branchheads(r, b) # {}}
    IN  [b \in (DOMAIN cache) \cup withheads |->
            IF b \in withheads THEN branchheads(r, b) ELSE cache[b]]

branch_line(branch) ==
    IF branch # "default"
    THEN "? refs/heads/branches/" \o hg_to_git_spaces(branch)
    ELSE "? refs/heads/master"

bookmark_line(bookmark) == "? refs/heads/" \o hg_to_git_spaces(bookmark)

tag_line(tag) == "? refs/tags/" \o hg_to_git_spaces(tag)

IsNotMaster(bookmark) == bookmark # "master"
IsNotTip(tag) == tag # "tip"

\* the lines of a list response that is not the empty answer, for the orders
\* in which the branches, the bookmarks and the tags are iterated
list_lines(hn, branchorder, bookmarkorder, tagorder) ==
    <<"@refs/heads/" \o hn[1] \o " HEAD">>
    \o [i \in 1..Len(branchorder) |-> branch_line(branchorder[i])]
    \o (LET bs == SelectSeq(bookmarkorder, IsNotMaster)
        IN  [i \in 1..Len(bs) |-> bookmark_line(bs[i])])
    \o (LET ts == SelectSeq(tagorder, IsNotTip)
        IN  [i \in 1..Len(ts) |-> tag_line(ts[i])])
    \o <<"">>

do_list ==
    /\ IF list_is_empty(repo)
       THEN /\ outbuf' = Append(outbuf, "")
            /\ response' = <<"">>
            /\ UNCHANGED session_vars
       ELSE /\ headnode' = list_headnode(repo)
            /\ bookmarks' = list_bookmarks(repo, bookmarks)
            /\ branches' = list_branches(repo, branches)
            /\ \E bo \in Orders(DOMAIN list_branches(repo, branches)),
                  mo \in Orders(DOMAIN list_bookmarks(repo, bookmarks)),
                  to \in Orders(repo.tagslist) :
                  /\ outbuf' = outbuf \o list_lines(list_headnode(repo), bo, mo, to)
                  /\ response' = list_lines(list_headnode(repo), bo, mo, to)
    /\ UNCHANGED <<parser_vars, marks_vars, repo, marks_git_exists>>

(***************************************************************************)
(* The import and export handlers.  HGImporter and GitExporter consume     *)
(* their block of the input through the shared parser and change the mark  *)
(* store in memory.                                                        *)
(***************************************************************************)
Min(a, b) == IF a < b THEN a ELSE b

RECURSIVE import_block(_, _)
\* the importer reads the per-ref import request lines: it stops with the
\* parser on the first line that is not one
import_block(p, refs) ==
    IF startswith(p.line, "import")
    THEN import_block(read_line(p.peek_stack, p.stdin),
                      Append(refs, strip(SubSeq(p.line, 7, Len(p.line)))))
    ELSE [parser |-> p, refs |-> refs]

do_import ==
    LET b == import_block([line |-> line, peek_stack |-> peek_stack, stdin |-> stdin], <<>>)
        lines == [i \in 1..Len(b.refs) |-> "reset " \o b.refs[i]] \o <<"done">>
    IN  /\ SetParser(b.parser)
        /\ outbuf' = outbuf \o lines
        /\ response' = lines
        /\ marks' \in {marks, Min(marks + 1, MaxMarks)}
        /\ marks_git_exists' \in {marks_git_exists, TRUE}
        /\ UNCHANGED <<marks_stored, nstore, repo, session_vars>>

RECURSIVE export_block(_, _)
\* the exporter reads the lines up to the sentinel done and stops with the
\* parser on it (the input always carries the sentinel)
export_block(p, cmds) ==
    IF p.line = "done" \/ (p.stdin = "" /\ p.peek_stack = <<>>)
    THEN [parser |-> p, cmds |-> cmds]
    ELSE export_block(read_line(p.peek_stack, p.stdin), Append(cmds, p.line))

\* the named branch a commit of the export stream goes to
commit_branch(cmd) == SubSeq(cmd, Len("commit refs/heads/branches/") + 1, Len(cmd))

do_export ==
    LET b == export_block(read_line(peek_stack, stdin), <<>>)
        commits == SelectSeq(b.cmds, LAMBDA c : startswith(c, "commit refs/heads/branches/"))
        lines == [i \in 1..Len(commits) |-> "ok " \o SubSeq(commits[i], 8, Len(commits[i]))]
                 \o <<"">>
    IN  /\ SetParser(b.parser)
        /\ outbuf' = outbuf \o lines
        /\ response' = lines
        /\ marks' = Min(marks + Len(commits), MaxMarks)
        /\ repo' = [repo EXCEPT !.branchmap =
                        @ \cup {commit_branch(commits[i]) : i \in 1..Len(commits)}]
        /\ UNCHANGED <<marks_stored, nstore, marks_git_exists, session_vars>>

(***************************************************************************)
(* HGRemote.process.                                                       *)
(***************************************************************************)
\* the loop body up to the call of the handler: the generator of
\* read_block('') yields the current line, its first token names the handler
Dispatch(command) ==
    /\ pc = "loop"
    /\ line # ""
    /\ split0(line) = command
    /\ command \in Commands
    /\ dispatched' = Append(dispatched, [line |-> line, handler |-> "do_" \o command])
    /\ pc' = "flush"
    /\ UNCHANGED <<input, aux_vars, stdout, stderr, exit_code>>

Capabilities == Dispatch("capabilities") /\ do_capabilities

List == Dispatch("list") /\ do_list

Import == Dispatch("import") /\ do_import

Export == Dispatch("export") /\ do_export

\* die(msg): the message goes to the error stream and the process exits
die(msg) ==
    /\ stderr' = msg
    /\ exit_code' = 1
    /\ pc' = "dead"

\* variant: the unknown line is reported and the loop goes on
Unhandled_continues ==
    /\ pc = "loop"
    /\ line # ""
    /\ split0(line) \notin Commands
    /\ stderr' = "unhandled command: " \o line
    /\ pc' = "resume"
    /\ UNCHANGED <<input, aux_vars, parser_vars, repo, marks_git_exists, marks_vars, session_vars,
                   outbuf, stdout, response, dispatched, exit_code>>

\* the first token is no command
Unhandled ==
    /\ pc = "loop"
    /\ line # ""
    /\ split0(line) \notin Commands
    /\ die("unhandled command: " \o line)
    /\ UNCHANGED <<input, aux_vars, parser_vars, repo, marks_git_exists, marks_vars, session_vars,
                   outbuf, stdout, response, dispatched>>

\* variant: the mark store is persisted in the loop, after every command
Flush_and_store ==
    /\ pc = "flush"
    /\ stdout' = stdout \o outbuf
    /\ outbuf' = <<>>
    /\ marks_stored' = marks
    /\ nstore' = nstore + 1
    /\ pc' = "resume"
    /\ UNCHANGED <<input, aux_vars, parser_vars, repo, marks_git_exists, marks, session_vars,
                   response, dispatched, stderr, exit_code>>

\* variant: the output is left in the buffer
Flush_skipped ==
    /\ pc = "flush"
    /\ pc' = "resume"
    /\ UNCHANGED <<input, aux_vars, parser_vars, repo, marks_git_exists, marks_vars, session_vars,
                   outbuf, stdout, response, dispatched, stderr, exit_code>>

\* actual_stdout.flush()
Flush ==
    /\ pc = "flush"
    /\ stdout' = stdout \o outbuf
    /\ outbuf' = <<>>
    /\ pc' = "resume"
    /\ UNCHANGED <<input, aux_vars, parser_vars, repo, marks_git_exists, marks_vars, session_vars,
                   response, dispatched, stderr, exit_code>>

\* variant: the generator reads two lines when it is resumed
Resume_reads_twice ==
    /\ pc = "resume"
    /\ LET p == read_line(peek_stack, stdin)
       IN  SetParser(read_line(p.peek_stack, p.stdin))
    /\ pc' = "loop"
    /\ UNCHANGED <<input, aux_vars, repo, marks_git_exists, marks_vars, session_vars, outbuf, stdout,
                   response, dispatched, stderr, exit_code>>

\* the generator of read_block('') is resumed: self.line = self.read_line()
Resume ==
    /\ pc = "resume"
    /\ SetParser(read_line(peek_stack, stdin))
    /\ pc' = "loop"
    /\ UNCHANGED <<input, aux_vars, repo, marks_git_exists, marks_vars, session_vars, outbuf, stdout,
                   response, dispatched, stderr, exit_code>>

\* the current line is the sentinel: the loop ends, self.marks.store(), and
\* main() returns
Finish ==
    /\ pc = "loop"
    /\ line = ""
    /\ marks_stored' = marks
    /\ nstore' = nstore + 1
    /\ exit_code' = 0
    /\ pc' = "exit"
    /\ UNCHANGED <<input, aux_vars, parser_vars, repo, marks_git_exists, marks, session_vars, outbuf,
                   stdout, response, dispatched, stderr>>

Next ==
    \/ ParserInit
    \/ Capabilities
    \/ List
    \/ Import
    \/ Export
    \/ Unhandled
    \/ Flush
    \/ Resume
    \/ Finish

Spec == Init /\ [][Next]_vars

SpecList == InitList /\ [][Next]_vars

TypeOK ==
    /\ pc \in {"init", "start", "loop", "flush", "resume", "exit", "dead", "parser"}
    /\ marks \in 0..MaxMarks
    /\ nstore \in 0..1
    /\ exit_code \in {Running, 0, 1, 255}

(***************************************************************************)
(* HGRemote.__init__ and build_repo: the session before process().         *)
(***************************************************************************)
MaxBuildUnits == 1

\* hg.clone(..., update=False, pull=True): the changesets, bookmarks and tags
\* of the remote, and nothing checked out
cloned(remote) ==
    [remote EXCEPT !.current = NoBookmark, !.dirstate_branch = "default",
                   !.dirstate_parent = nullrev]

\* repo.pull(peer, heads=None, force=True): every head of the remote arrives
pulled(r, new_branches) == [r EXCEPT !.branchmap = @ \cup new_branches]

\* an exception nobody catches: the interpreter prints it and exits with 1
uncaught(exception) ==
    /\ stderr' = "Traceback: " \o exception
    /\ exit_code' = 1
    /\ pc' = "dead"

CloneOutcomes == {"ok", "RepoError", "Abort", "IOError"}

\* build_repo when local_path does not exist
build_clone ==
    /\ pc = "init"
    /\ ~build.existed
    /\ \E outcome \in CloneOutcomes :
         IF outcome = "ok"
         THEN /\ \E remote \in FewMirrors : repo' = cloned(remote)
              /\ build' = [build EXCEPT !.calls = <<hg_clone>>]
              /\ pc' = "start"
              /\ UNCHANGED <<stderr, exit_code>>
         ELSE /\ build' = [build EXCEPT !.calls = <<hg_clone>>, !.failed = TRUE]
              /\ UNCHANGED repo
              /\ IF outcome \in {"RepoError", "Abort"}
                 THEN /\ stderr' = "abort: " \o outcome \o "\n"
                      /\ exit_code' = 255
                      /\ pc' = "dead"
                 ELSE uncaught(outcome)
    /\ UNCHANGED <<input, parser_vars, trace, block, ret, marks_git_exists, marks_vars,
                   session_vars, outbuf, stdout, response, dispatched>>

\* a build_repo that goes on with the mirror as it is when a call fails
build_pull_ignores_failure ==
    /\ pc = "init"
    /\ build.existed
    /\ \E done \in 0..2 :
         /\ build' = [build EXCEPT !.calls = SubSeq(build_calls(TRUE), 1, done + 1),
                                   !.failed = TRUE]
         /\ pc' = "start"
    /\ UNCHANGED <<input, parser_vars, trace, block, ret, marks_git_exists, marks_vars, repo,
                   session_vars, outbuf, stdout, response, dispatched, stderr, exit_code>>

\* build_repo when local_path exists: hg.repository, hg.peer, repo.pull,
\* none of them in a try block
build_pull ==
    /\ pc = "init"
    /\ build.existed
    /\ \/ /\ build' = [build EXCEPT !.calls = build_calls(TRUE)]
          /\ \E new_branches \in SUBSET {"x"} : repo' = pulled(repo, new_branches)
          /\ pc' = "start"
          /\ UNCHANGED <<stderr, exit_code>>
       \/ /\ \E done \in 0..2 :
               build' = [build EXCEPT !.calls = SubSeq(build_calls(TRUE), 1, done + 1),
                                      !.failed = TRUE]
          /\ \E exception \in {"RepoError", "Abort"} : uncaught(exception)
          /\ UNCHANGED repo
    /\ UNCHANGED <<input, parser_vars, trace, block, ret, marks_git_exists, marks_vars,
                   session_vars, outbuf, stdout, response, dispatched>>

\* HGRemote.__init__ has not called build_repo yet
InitBuild ==
    /\ input \in Inputs(MaxBuildUnits, {""})
    /\ \E existed \in BOOLEAN :
         /\ build = [existed |-> existed, calls |-> <<>>, failed |-> FALSE]
         /\ repo \in IF existed THEN FewMirrors ELSE {EmptyMirror}
    /\ marks_git_exists \in BOOLEAN
    /\ NoParser
    /\ pc = "init"
    /\ marks = 0
    /\ marks_stored = marks
    /\ nstore = 0
    /\ headnode = <<>>
    /\ branches = <<>>
    /\ bookmarks = <<>>
    /\ outbuf = <<>>
    /\ stdout = <<>>
    /\ response = <<>>
    /\ dispatched = <<>>
    /\ stderr = ""
    /\ exit_code = Running

NextBuild ==
    \/ build_clone
    \/ build_pull
    \/ Next

SpecBuild == InitBuild /\ [][NextBuild]_vars

\* C11: build_repo runs once, in the constructor and before any line is read: a
\* clone without update when there is no mirror, else open, peer and a forced
\* pull of all heads; when one of them fails the process ends with a non-zero
\* status, having read, dispatched and answered nothing and stored no marks.
C11_BuildOnceOrExit ==
    /\ pc = "init" => build.calls = <<>> /\ stdin = input /\ line = NoLine
    /\ pc # "init" /\ ~build.failed => build.calls = build_calls(build.existed)
    /\ build.failed =>
         /\ pc = "dead"
         /\ exit_code \notin {Running, 0}
         /\ stdin = input /\ line = NoLine
         /\ dispatched = <<>> /\ outbuf = <<>> /\ stdout = <<>>
         /\ nstore = 0 /\ marks_stored = 0

\* the forced pull into an existing mirror has failed
C11_Witness == build.failed /\ build.calls = build_calls(TRUE)

\* a session on a fresh clone has come to its end
C11_WitnessClone == ~build.failed /\ build.calls = <<hg_clone>> /\ pc = "exit"

(***************************************************************************)
(* The claims.                                                             *)
(***************************************************************************)
LastHandler == IF dispatched = <<>> THEN "" ELSE dispatched[Len(dispatched)].handler

\* the handler has just returned: response holds what it wrote
Answered(handler) == pc = "flush" /\ LastHandler = handler

Lines(resp) == {resp[i] : i \in 1..Len(resp)}

IsHeadLine(l) == startswith(l, "@")
IsRefLine(l) == startswith(l, "? ")

\* C1: every capabilities response has an *export-marks <path> line, and has an
\* *import-marks <path> line exactly when the git marks file exists at the
\* session's marks path when the command is handled
C1_MarksLines ==
    Answered("do_capabilities") =>
        /\ \E l \in Lines(response) : l = "*export-marks .git/hg/u/marks-git"
        /\ (\E l \in Lines(response) : startswith(l, "*import-marks")) <=> marks_git_exists
        /\ \A l \in Lines(response) :
              startswith(l, "*import-marks") => l = "*import-marks .git/hg/u/marks-git"

\* a capabilities command that is not the first command of its session is
\* answered with an import-marks line
C1_Witness ==
    /\ Answered("do_capabilities")
    /\ Len(dispatched) >= 2
    /\ marks_git_exists
    /\ "*import-marks .git/hg/u/marks-git" \in Lines(response)

\* C2: a capabilities response is import, export, the refspec lines of the
\* branches, the bookmarks and the tags, the *import-marks line when present,
\* the *export-marks line and a blank line, in this order, and the blank line
\* is the last thing written for the command
C2_CapabilitiesOrder ==
    Answered("do_capabilities") =>
        LET n == Len(response)
        IN  /\ n \in {7, 8}
            /\ response[1] = "import"
            /\ response[2] = "export"
            /\ response[3] = "refspec refs/heads/branches/*:refs/hg/o/branches/*"
            /\ response[4] = "refspec refs/heads/*:refs/hg/o/bookmarks/*"
            /\ response[5] = "refspec refs/tags/*:refs/hg/o/tags/*"
            /\ n = 8 => startswith(response[6], "*import-marks ")
            /\ startswith(response[n - 1], "*export-marks ")
            /\ response[n] = ""
            /\ \A i \in 1..(n - 1) : response[i] # ""
            /\ outbuf = response

\* a capabilities response with both marks lines
C2_Witness ==
    /\ Answered("do_capabilities")
    /\ Len(response) = 8
    /\ startswith(response[6], "*import-marks ")
    /\ startswith(response[7], "*export-marks ")

\* C3: a list handled while the mirror has no revisions writes one blank line
\* and nothing else
C3_EmptyMirrorList ==
    (Answered("do_list") /\ repo.branchmap = {}) =>
        /\ response = <<"">>
        /\ outbuf = <<"">>

\* a list has been answered for a mirror without revisions
C3_Witness ==
    /\ Answered("do_list")
    /\ repo.branchmap = {}
    /\ repo.bookmarks = {}
    /\ response = <<"">>

\* the name a list response has to give on its HEAD line
ExpectedHeadName ==
    IF repo.current # NoBookmark THEN repo.current
    ELSE IF repo.dirstate_branch = "default" THEN "master"
    ELSE repo.dirstate_branch

\* C4: a list on a mirror with revisions whose current named branch is default,
\* without an active bookmark, names refs/heads/master on its HEAD line and
\* lists the default branch as ? refs/heads/master; the branch fallback never
\* puts refs/heads/default on the HEAD line and no response has a line
\* ? refs/heads/branches/default
C4_DefaultIsMaster ==
    Answered("do_list") =>
        /\ (repo.branchmap # {} /\ repo.dirstate_branch = "default"
              /\ repo.current = NoBookmark) =>
              /\ "@refs/heads/master HEAD" \in Lines(response)
              /\ "default" \in repo.branchmap => "? refs/heads/master" \in Lines(response)
        /\ repo.current = NoBookmark => "@refs/heads/default HEAD" \notin Lines(response)
        /\ "? refs/heads/branches/default" \notin Lines(response)

\* C5: a list response that is not the empty answer has exactly one HEAD line,
\* it comes before every ? line, and it names the active bookmark or else the
\* current named branch with default replaced by master
C5_HeadLine ==
    (Answered("do_list") /\ response # <<"">>) =>
        /\ response[1] = "@refs/heads/" \o ExpectedHeadName \o " HEAD"
        /\ \A i \in 2..Len(response) : ~IsHeadLine(response[i])
        /\ \A i \in 1..Len(response) : IsRefLine(response[i]) => i > 1

\* a list response whose HEAD line names an active bookmark and is followed by
\* ? lines
C5_Witness ==
    /\ Answered("do_list")
    /\ repo.current # NoBookmark
    /\ Len(response) >= 3
    /\ IsHeadLine(response[1])
    /\ IsRefLine(response[2])

\* C6: a list handled while the mirror has revisions has a HEAD line and a
\* ? line for every named branch with heads; the blank-only answer is given
\* only for a mirror without revisions
C6_NonEmptyMirrorList ==
    (Answered("do_list") /\ repo.branchmap # {}) =>
        /\ response # <<"">>
        /\ \E l \in Lines(response) : IsHeadLine(l)
        /\ \A b \in repo.branchmap :
              branchheads(repo, b) # {} =>
                  (IF b = "default" THEN "? refs/heads/master"
                   ELSE "? refs/heads/branches/" \o hg_to_git_spaces(b)) \in Lines(response)

\* the current line stands at dispatch position and its first token is no
\* command
UnknownCommand == pc = "loop" /\ line # "" /\ split0(line) \notin Commands

\* C7: a line at dispatch position whose first token is none of capabilities,
\* list, import, export ends the session with a non-zero exit and a report of
\* the line; no handler runs for it, no further input is read, the mark store
\* is not persisted, and nothing happens afterwards
C7_UnknownCommandAborts ==
    [][/\ pc # "dead"
       /\ UnknownCommand =>
             /\ pc' = "dead"
             /\ exit_code' \notin {Running, 0}
             /\ stderr' = "unhandled command: " \o line
             /\ UNCHANGED <<stdin, line, peek_stack, dispatched, response, outbuf, stdout>>
             /\ UNCHANGED <<marks_stored, nstore>>]_vars

\* the session has died of an unknown command after it handled another command
C7_Witness ==
    /\ pc = "dead"
    /\ Len(dispatched) >= 1
    /\ split0(line) = "fetch"
    /\ nstore = 0
    /\ stdin # ""

\* C8: a session whose input ends normally has persisted the mark store exactly
\* once, after the last command was dispatched and its output flushed; the
\* dispatch loop does not persist it before
C8_StoreOnce ==
    /\ pc = "exit" =>
          /\ nstore = 1
          /\ marks_stored = marks
          /\ outbuf = <<>>
          /\ exit_code = 0
    /\ pc # "exit" => nstore = 0

\* a session of several commands has ended normally with new marks persisted
C8_Witness ==
    /\ pc = "exit"
    /\ Len(dispatched) >= 2
    /\ nstore = 1
    /\ marks_stored = MaxMarks

IsSuffix(t, u) == Len(t) <= Len(u) /\ SubSeq(u, Len(u) - Len(t) + 1, Len(u)) = t

\* C9: when the dispatch loop is about to read the next command line, the
\* output of the command just handled has been flushed: nothing is buffered
\* and git has received the whole response
C9_FlushBeforeRead ==
    pc = "resume" =>
        /\ outbuf = <<>>
        /\ IsSuffix(response, stdout)

\* the loop is about to read the line after an answered list
C9_Witness ==
    /\ pc = "resume"
    /\ LastHandler = "do_list"
    /\ Len(response) >= 2
    /\ stdin # ""

RECURSIVE InputLines(_)
\* the lines of an input, stripped as the parser strips them
InputLines(text) ==
    IF text = "" THEN <<>>
    ELSE LET n == NewlinePos(text, 1)
         IN  <<strip(SubSeq(text, 1, n))>> \o InputLines(SubSeq(text, n + 1, Len(text)))

RECURSIVE DropImports(_)
DropImports(ls) ==
    IF ls # <<>> /\ startswith(ls[1], "import") THEN DropImports(Tail(ls)) ELSE ls

RECURSIVE DropThroughDone(_)
DropThroughDone(ls) ==
    IF ls = <<>> THEN <<>>
    ELSE IF ls[1] = "done" THEN Tail(ls)
    ELSE DropThroughDone(Tail(ls))

\* the lines behind the block of the command at the head of ls: an import
\* block ends with its blank sentinel, an export block with done
AfterBlock(command, ls) ==
    IF command = "import" THEN (IF DropImports(ls) = <<>> THEN <<>> ELSE Tail(DropImports(ls)))
    ELSE IF command = "export" THEN DropThroughDone(ls)
    ELSE Tail(ls)

RECURSIVE ExpectedDispatch(_)
\* the command lines at dispatch position with the handlers their first
\* tokens name, up to the terminating empty line or the first unknown command
ExpectedDispatch(ls) ==
    IF ls = <<>> \/ ls[1] = "" THEN <<>>
    ELSE LET command == split0(ls[1])
         IN  IF command \notin Commands THEN <<>>
             ELSE <<[line |-> ls[1], handler |-> "do_" \o command]>>
                  \o ExpectedDispatch(AfterBlock(command, ls))

IsPrefix(t, u) == Len(t) <= Len(u) /\ SubSeq(u, 1, Len(t)) = t

\* C10: the command lines at dispatch position are dispatched once each, in
\* input order, to the handler their first token names; none is skipped, not
\* the first line and not the line behind an import or export block
C10_EveryCommandDispatched ==
    /\ IsPrefix(dispatched, ExpectedDispatch(InputLines(input)))
    /\ pc \in {"exit", "dead"} => dispatched = ExpectedDispatch(InputLines(input))

\* a session has ended after three commands, one of which follows an import
\* or export block, and one of which has an argument
C10_Witness ==
    /\ pc = "exit"
    /\ Len(dispatched) = 3
    /\ dispatched[1].handler \in {"do_import", "do_export"}
    /\ dispatched[2].line = "list for-push"
    /\ dispatched[2].handler = "do_list"

\* C12: in one list response no two descriptors (kind, name) of the mirror are
\* written as the same ? <ref> path; every descriptor is written on a line of
\* its own, so no ? line occurs twice
C12_RefPathsOneToOne ==
    Answered("do_list") =>
        \A i, j \in 1..Len(response) :
            (IsRefLine(response[i]) /\ response[i] = response[j]) => i = j

\* the ref a HEAD line names: "@<ref> HEAD" without its first and last five characters
HeadRef(l) == SubSeq(l, 2, Len(l) - 5)

\* C19: in every list response that is not the blank answer the ref of the
\* @<ref> HEAD line is the ref of one of the ? <ref> lines of the response
C19_HeadIsListed ==
    (Answered("do_list") /\ response # <<"">>) =>
        \E i \in 2..Len(response) : response[i] = "? " \o HeadRef(response[1])

\* a step that handles capabilities, and one that handles list
IsHandling(command) == pc = "loop" /\ pc' = "flush" /\ split0(line) = command

\* C20: handling capabilities or list reads no input (stream, current line and
\* lookahead stay) and leaves the marks in memory and on disk alone;
\* capabilities changes nothing of the session, list only the cached head,
\* bookmarks and branches
C20_ListingFrame ==
    [][/\ IsHandling("capabilities") =>
            UNCHANGED <<parser_vars, marks_vars, marks_git_exists, repo, session_vars>>
       /\ IsHandling("list") =>
            UNCHANGED <<parser_vars, marks_vars, marks_git_exists, repo>>]_vars

\* a list has filled the caches of a session whose marks an import had
\* changed before, and the next command is still unread
C20_Witness ==
    /\ Answered("do_list")
    /\ DOMAIN branches # {}
    /\ marks > 0
    /\ marks_stored = 0
    /\ stdin # ""

(***************************************************************************)
(* GitRemoteParser on its own: read_line and peek in any interleaving.     *)
(***************************************************************************)
\* lines of the stream
MaxPeekLines == 3
\* calls of read_line and peek after the constructor
MaxCalls == 4

\* GitRemoteParser.peek
peek_forgets(ps, stream) ==
    LET r == readline(stream)
    IN  [value |-> strip(r.text), peek_stack |-> ps, stdin |-> r.rest]

peek(ps, stream) ==
    LET r == readline(stream)
    IN  [value |-> strip(r.text), peek_stack |-> Append(ps, strip(r.text)), stdin |-> r.rest]

StreamUnits == {"mark :5\n", "  from :3 \n", "done\n"}

\* parser = GitRemoteParser(): the constructor has read the first line
ParserConstructed ==
    LET p == read_line(<<>>, input)
    IN  /\ line = p.line
        /\ peek_stack = p.peek_stack
        /\ stdin = p.stdin
        /\ trace = <<[op |-> "read_line", value |-> p.line, pending |-> 0]>>
        /\ block = NoBlock
        /\ ret = NoRet

\* the session around a parser that is looked at on its own
NoSession ==
    /\ pc = "parser"
    /\ build = [existed |-> TRUE, calls |-> build_calls(TRUE), failed |-> FALSE]
    /\ repo = EmptyMirror
    /\ marks_git_exists = FALSE
    /\ marks = 0
    /\ marks_stored = marks
    /\ nstore = 0
    /\ headnode = <<>>
    /\ branches = <<>>
    /\ bookmarks = <<>>
    /\ outbuf = <<>>
    /\ stdout = <<>>
    /\ response = <<>>
    /\ dispatched = <<>>
    /\ stderr = ""
    /\ exit_code = Running

InitPeek ==
    /\ input \in {Concat(us) : us \in SeqsUpTo(StreamUnits, MaxPeekLines)}
    /\ ParserConstructed
    /\ NoSession

\* what a parser method leaves alone
ParserFrame ==
    UNCHANGED <<input, pc, repo, marks_git_exists, marks_vars, session_vars, outbuf, stdout,
                response, dispatched, stderr, exit_code, build>>

\* a caller calls parser.read_line()
ReadLine ==
    /\ pc = "parser"
    /\ Len(trace) <= MaxCalls
    /\ LET p == read_line(peek_stack, stdin)
       IN  /\ SetParser(p)
           /\ trace' = Append(trace, [op |-> "read_line", value |-> p.line,
                                      pending |-> Len(peek_stack)])
    /\ UNCHANGED <<block, ret>>
    /\ ParserFrame

\* a caller calls parser.peek()
Peek ==
    /\ pc = "parser"
    /\ Len(trace) <= MaxCalls
    /\ LET p == peek(peek_stack, stdin)
       IN  /\ peek_stack' = p.peek_stack
           /\ stdin' = p.stdin
           /\ trace' = Append(trace, [op |-> "peek", value |-> p.value,
                                      pending |-> Len(peek_stack)])
    /\ UNCHANGED <<line, block, ret>>
    /\ ParserFrame

NextPeek ==
    \/ ReadLine
    \/ Peek

SpecPeek == InitPeek /\ [][NextPeek]_vars

RECURSIVE StreamLine(_, _)
\* the k-th line of the stream as read_line returns it; "" after the end
StreamLine(stream, k) ==
    IF k = 1 THEN strip(readline(stream).text) ELSE StreamLine(readline(stream).rest, k - 1)

\* the calls of read_line so far, the constructor's first
ReadCalls == SelectSeq(trace, LAMBDA c : c.op = "read_line")

\* read_line returns the lines of the stream in stream order, each once
ReadsInStreamOrder ==
    \A k \in 1..Len(ReadCalls) : ReadCalls[k].value = StreamLine(input, k)

\* the call after which read_line is called next
NextRead(i) == CHOOSE j \in (i + 1)..Len(trace) :
                  /\ trace[j].op = "read_line"
                  /\ \A k \in (i + 1)..(j - 1) : trace[k].op # "read_line"

HasNextRead(i) == \E j \in (i + 1)..Len(trace) : trace[j].op = "read_line"

\* C14 as stated: read_line returns the lines of the stream in order, each
\* once, and the line any peek returns is the line the next read_line returns
C14_PeekIsNextRead ==
    /\ ReadsInStreamOrder
    /\ \A i \in 1..Len(trace) :
          (trace[i].op = "peek" /\ HasNextRead(i)) =>
              trace[NextRead(i)].value = trace[i].value

\* C14: read_line returns the lines of the stream in order, each once, peeked
\* or not; the line a peek returns is the line the next read_line returns when
\* the lookahead buffer was empty at the peek
C14_PeekThenRead ==
    /\ ReadsInStreamOrder
    /\ \A i \in 1..Len(trace) :
          (trace[i].op = "peek" /\ trace[i].pending = 0 /\ HasNextRead(i)) =>
              trace[NextRead(i)].value = trace[i].value

\* two peeks in a row have returned different lines, and two read_line calls
\* have taken them from the buffer
C14_Witness ==
    /\ Len(trace) = 5
    /\ trace[2].op = "peek" /\ trace[3].op = "peek"
    /\ trace[2].value # trace[3].value
    /\ trace[4].op = "read_line" /\ trace[5].op = "read_line"
    /\ peek_stack = <<>>

(***************************************************************************)
(* GitRemoteParser on its own: read_mark, read_data, read_author and       *)
(* read_block.                                                             *)
(***************************************************************************)
IsDigit(c) == c \in {"0", "1", "2", "3", "4", "5", "6", "7", "8", "9"}

DigitValue(c) == CHOOSE d \in 0..9 : Char("0123456789", d + 1) = c

AllDigits(s) == Len(s) > 0 /\ \A i \in 1..Len(s) : IsDigit(Char(s, i))

RECURSIVE decimal(_)
\* the number a string of digits writes
decimal(s) ==
    IF Len(s) = 0 THEN 0
    ELSE decimal(SubSeq(s, 1, Len(s) - 1)) * 10 + DigitValue(Char(s, Len(s)))

\* int(s): blanks around the number and a sign are accepted; anything else
\* raises ValueError
int(s) ==
    LET t == strip(s)
        signed == Len(t) > 0 /\ Char(t, 1) \in {"+", "-"}
        digits == IF signed THEN SubSeq(t, 2, Len(t)) ELSE t
    IN  IF AllDigits(digits)
        THEN [ok |-> TRUE,
              value |-> IF signed /\ Char(t, 1) = "-" THEN 0 - decimal(digits)
                        ELSE decimal(digits)]
        ELSE [ok |-> FALSE, value |-> 0]

RECURSIVE find(_, _, _)
\* the first position from i on whose character is in cs, 0 when there is none
find(s, cs, i) ==
    IF i > Len(s) THEN 0
    ELSE IF Char(s, i) \in cs THEN i
    ELSE find(s, cs, i + 1)

\* str.partition(sep) for a separator of one character
partition(s, sep) ==
    LET k == find(s, {sep}, 1)
    IN  IF k = 0 THEN <<s, "", "">>
        ELSE <<SubSeq(s, 1, k - 1), sep, SubSeq(s, k + 1, Len(s))>>

\* GitRemoteParser.read_mark
read_mark(ps, stream) ==
    LET p == read_line(ps, stream)
        n == int(partition(p.line, ":")[3])
    IN  [parser |-> p, raised |-> ~n.ok, value |-> n.value]

\* sys.stdin.read(size)
read(stream, size) ==
    LET n == IF size < Len(stream) THEN size ELSE Len(stream)
    IN  [text |-> SubSeq(stream, 1, n), rest |-> SubSeq(stream, n + 1, Len(stream))]

\* a read_data that takes the line feed after the payload with it
read_data_reads_newline(ps, stream) ==
    LET p == read_line(ps, stream)
        size == int(partition(p.line, " ")[3])
        data == read(p.stdin, size.value + 1)
    IN  IF ~startswith(p.line, "data")
        THEN [parser |-> p, raised |-> FALSE, none |-> TRUE, value |-> ""]
        ELSE IF ~size.ok
        THEN [parser |-> p, raised |-> TRUE, none |-> TRUE, value |-> ""]
        ELSE [parser |-> [p EXCEPT !.stdin = data.rest], raised |-> FALSE, none |-> FALSE,
              value |-> data.text]

\* GitRemoteParser.read_data
read_data(ps, stream) ==
    LET p == read_line(ps, stream)
        size == int(partition(p.line, " ")[3])
        data == read(p.stdin, size.value)
    IN  IF ~startswith(p.line, "data")
        THEN [parser |-> p, raised |-> FALSE, none |-> TRUE, value |-> ""]
        ELSE IF ~size.ok
        THEN [parser |-> p, raised |-> TRUE, none |-> TRUE, value |-> ""]
        ELSE [parser |-> [p EXCEPT !.stdin = data.rest], raised |-> FALSE, none |-> FALSE,
              value |-> data.text]

\* the character at position i, "" outside the string
At(s, i) == IF i \in 1..Len(s) THEN Char(s, i) ELSE ""

RECURSIVE DigitsEnd(_, _)
\* \d+ from position i: the position of its last digit, i - 1 when there is none
DigitsEnd(s, i) ==
    IF i <= Len(s) /\ IsDigit(Char(s, i)) THEN DigitsEnd(s, i + 1) ELSE i - 1

\* AUTHOR_RE.match(line):
\* ^(?:author|committer|tagger)(?: ([^<>]+)?)? <([^<>]*)> (\d+) ([+-]\d+)
AUTHOR_RE_match(l) ==
    LET keyword == IF startswith(l, "author") THEN "author"
                   ELSE IF startswith(l, "committer") THEN "committer"
                   ELSE IF startswith(l, "tagger") THEN "tagger"
                   ELSE ""
        rest == SubSeq(l, Len(keyword) + 1, Len(l))
        \* the user cannot hold < or >: " <" ends at the first of them
        open == find(rest, {"<", ">"}, 1)
        before == SubSeq(rest, 1, open - 2)
        after == SubSeq(rest, open + 1, Len(rest))
        close == find(after, {"<", ">"}, 1)
        tail == SubSeq(after, close + 1, Len(after))
        date_end == DigitsEnd(tail, 2)
        tz_end == DigitsEnd(tail, date_end + 3)
        NoMatch == [ok |-> FALSE, user |-> "", has_user |-> FALSE, email |-> "",
                    date |-> "", tz |-> ""]
    IN  IF keyword = "" THEN NoMatch
        ELSE IF open < 2 \/ At(rest, open) # "<" \/ At(rest, open - 1) # " "
        THEN NoMatch
        ELSE IF before # "" /\ At(before, 1) # " " THEN NoMatch
        ELSE IF close = 0 \/ At(after, close) # ">" THEN NoMatch
        ELSE IF At(tail, 1) # " " \/ date_end < 2 THEN NoMatch
        ELSE IF At(tail, date_end + 1) # " "
                  \/ At(tail, date_end + 2) \notin {"+", "-"}
                  \/ tz_end < date_end + 3
        THEN NoMatch
        ELSE [ok |-> TRUE,
              user |-> SubSeq(before, 2, Len(before)),
              has_user |-> Len(before) >= 2,
              email |-> SubSeq(after, 1, close - 1),
              date |-> SubSeq(tail, 2, date_end),
              tz |-> SubSeq(tail, date_end + 2, tz_end)]

\* line 98: -((int(tz) / 100) * 3600) + ((int(tz) % 100) * 60), where / and %
\* on integers round towards minus infinity
tz_seconds(tz) == (0 - ((tz \div 100) * 3600)) + ((tz % 100) * 60)

\* GitRemoteParser.read_author
read_author(ps, stream) ==
    LET p == read_line(ps, stream)
        match == AUTHOR_RE_match(p.line)
    IN  IF ~match.ok
        THEN [parser |-> p, none |-> TRUE, user |-> "", date |-> 0, tz |-> 0]
        ELSE [parser |-> p, none |-> FALSE,
              user |-> (IF match.has_user THEN match.user ELSE "")
                          \o " <" \o match.email \o ">",
              date |-> int(match.date).value,
              tz |-> tz_seconds(int(match.tz).value)]

\* units of the stream
MaxParserUnits == 3
\* lines one read_block yields at most before its caller gives up
MaxBlockLines == 4

\* lines and payloads of a fast-export stream, and mark lines gone wrong
ParserUnits ==
    {"mark :5\n",
     "from :3\n",
     "mark :x\n",
     "data 3\nabc\n",
     "author A B <a@b> 10 +0530\n",
     "committer <c@d> 20 -0530\n",
     "tagger T <t@u> 30 -0500\n",
     "done\n",
     "\n"}

InitParser ==
    /\ input \in {Concat(us) : us \in SeqsUpTo(ParserUnits, MaxParserUnits)}
    /\ ParserConstructed
    /\ NoSession

\* what a call of a parser method leaves alone, whether it returns or raises
CallFrame ==
    UNCHANGED <<input, repo, marks_git_exists, marks_vars, session_vars, outbuf, stdout,
                response, dispatched, build, trace>>

\* a caller calls parser.read_mark(); the ValueError of int() is not caught
ReadMark ==
    /\ pc = "parser"
    /\ ~block.active
    /\ LET r == read_mark(peek_stack, stdin)
       IN  /\ SetParser(r.parser)
           /\ ret' = [op |-> "read_mark", raised |-> r.raised, value |-> r.value]
           /\ IF r.raised THEN uncaught("ValueError") ELSE UNCHANGED <<pc, stderr, exit_code>>
    /\ UNCHANGED block
    /\ CallFrame

\* a caller calls parser.read_data()
ReadData ==
    /\ pc = "parser"
    /\ ~block.active
    /\ LET r == read_data(peek_stack, stdin)
       IN  /\ SetParser(r.parser)
           /\ ret' = [op |-> "read_data", raised |-> r.raised, none |-> r.none,
                      value |-> r.value, stdin0 |-> stdin]
           /\ IF r.raised THEN uncaught("ValueError") ELSE UNCHANGED <<pc, stderr, exit_code>>
    /\ UNCHANGED block
    /\ CallFrame

\* a caller calls parser.read_author()
ReadAuthor ==
    /\ pc = "parser"
    /\ ~block.active
    /\ LET r == read_author(peek_stack, stdin)
       IN  /\ SetParser(r.parser)
           /\ ret' = [op |-> "read_author", none |-> r.none, user |-> r.user,
                      date |-> r.date, tz |-> r.tz]
    /\ UNCHANGED <<block, pc, stderr, exit_code>>
    /\ CallFrame

\* a caller calls parser.read_block(sentinel): a generator that has not run yet
BlockStart ==
    /\ pc = "parser"
    /\ ~block.active
    /\ \E sentinel \in {"", "done"} :
         block' = [active |-> TRUE, sentinel |-> sentinel, started |-> FALSE,
                   yielded |-> <<>>, line0 |-> line, stdin0 |-> stdin]
    /\ ret' = NoRet
    /\ UNCHANGED <<parser_vars, pc, stderr, exit_code>>
    /\ CallFrame

\* a read_block that reads a line before it looks at the current one
BlockNext_skips_current ==
    /\ pc = "parser"
    /\ block.active
    /\ Len(block.yielded) < MaxBlockLines
    /\ LET p == read_line(peek_stack, stdin)
       IN  /\ SetParser(p)
           /\ IF p.line # block.sentinel
              THEN /\ block' = [block EXCEPT !.started = TRUE, !.yielded = Append(@, p.line)]
                   /\ UNCHANGED ret
              ELSE /\ block' = NoBlock
                   /\ ret' = [op |-> "read_block", sentinel |-> block.sentinel,
                              yielded |-> block.yielded, line0 |-> block.line0,
                              stdin0 |-> block.stdin0]
    /\ UNCHANGED <<pc, stderr, exit_code>>
    /\ CallFrame

\* the caller asks the generator for its next line: the loop runs up to its
\* next yield, or ends
BlockNext ==
    /\ pc = "parser"
    /\ block.active
    /\ Len(block.yielded) < MaxBlockLines
    /\ LET p == IF block.started THEN read_line(peek_stack, stdin)
                ELSE [line |-> line, peek_stack |-> peek_stack, stdin |-> stdin]
       IN  /\ SetParser(p)
           /\ IF p.line # block.sentinel
              THEN /\ block' = [block EXCEPT !.started = TRUE, !.yielded = Append(@, p.line)]
                   /\ UNCHANGED ret
              ELSE /\ block' = NoBlock
                   /\ ret' = [op |-> "read_block", sentinel |-> block.sentinel,
                              yielded |-> block.yielded, line0 |-> block.line0,
                              stdin0 |-> block.stdin0]
    /\ UNCHANGED <<pc, stderr, exit_code>>
    /\ CallFrame

NextParser ==
    \/ ReadMark
    \/ ReadData
    \/ ReadAuthor
    \/ BlockStart
    \/ BlockNext

SpecParser == InitParser /\ [][NextParser]_vars

\* the time-zone field sHHMM of an author line that ends with it
TzField(l) == SubSeq(l, Len(l) - 4, Len(l))

\* the epoch field: the digits between "> " and the time-zone field
EpochField(l) == SubSeq(l, find(l, {">"}, 1) + 2, Len(l) - 6)

\* the offset sHHMM stands for, in seconds
TzOffset(tz) ==
    (IF Char(tz, 1) = "-" THEN 0 - 1 ELSE 1)
        * (decimal(SubSeq(tz, 2, 3)) * 3600 + decimal(SubSeq(tz, 4, 5)) * 60)

\* C15: for an author, committer or tagger line that matches, read_author
\* returns the epoch field as an integer and the negated offset of the
\* time-zone field sHHMM: -(s * (HH * 3600 + MM * 60)) seconds
C15_AuthorOffset ==
    (ret.op = "read_author" /\ ~ret.none) =>
        /\ ret.date = decimal(EpochField(line))
        /\ ret.tz = 0 - TzOffset(TzField(line))

RECURSIVE UpToSentinel(_, _, _)
\* the lines from the current one up to the first that equals the sentinel,
\* and the stream behind that line
UpToSentinel(current, stream, sentinel) ==
    IF current = sentinel THEN [lines |-> <<>>, rest |-> stream]
    ELSE LET r == readline(stream)
             more == UpToSentinel(strip(r.text), r.rest, sentinel)
         IN  [lines |-> <<current>> \o more.lines, rest |-> more.rest]

\* C16: a read_block that has ended has yielded the current line and every
\* line after it up to, not including, the first line equal to the sentinel;
\* the parser's line is the sentinel and nothing behind it has been read
C16_BlockUpToSentinel ==
    ret.op = "read_block" =>
        LET expected == UpToSentinel(ret.line0, ret.stdin0, ret.sentinel)
        IN  /\ ret.yielded = expected.lines
            /\ line = ret.sentinel
            /\ stdin = expected.rest
            /\ peek_stack = <<>>

\* a block of two lines has ended at its done line, with input left behind it
C16_Witness ==
    /\ ret.op = "read_block"
    /\ ret.sentinel = "done"
    /\ Len(ret.yielded) = 2
    /\ stdin # ""

\* a data <N> header
IsDataHeader(l) == startswith(l, "data ") /\ AllDigits(SubSeq(l, 6, Len(l)))

C17_WitnessNoData ==
    /\ ret.op = "read_data"
    /\ ret.none
    /\ line = "from :3"
    /\ stdin # ""

\* a mark :N line
IsMarkLine(l) == startswith(l, "mark :") /\ AllDigits(SubSeq(l, 7, Len(l)))

\* C18: read_mark returns N for a line mark :N; for any other line it ends
\* the process and returns nothing
C18_MarkOrFatal ==
    ret.op = "read_mark" =>
        IF IsMarkLine(line)
        THEN ~ret.raised /\ ret.value = decimal(SubSeq(line, 7, Len(line)))
        ELSE ret.raised /\ pc = "dead" /\ exit_code \notin {Running, 0}

(***************************************************************************)
(* A session whose mirror changes on disk between two commands.            *)
(***************************************************************************)
MaxRelistUnits == 2

InitRelist ==
    /\ input \in Inputs(MaxRelistUnits, {""})
    /\ repo \in FewMirrors
    /\ marks_git_exists = FALSE
    /\ InitSession

\* while the helper waits for its next command a bookmark of the mirror is
\* deleted; listbookmarks() and readcurrent() read the mirror anew at every list
BookmarkDeleted ==
    /\ pc = "resume"
    /\ \E b \in repo.bookmarks :
         repo' = [repo EXCEPT !.bookmarks = @ \ {b},
                              !.current = IF @ = b THEN NoBookmark ELSE @]
    /\ UNCHANGED <<input, aux_vars, parser_vars, pc, marks_git_exists, marks_vars,
                   session_vars, outbuf, stdout, response, dispatched, stderr, exit_code>>

NextRelist ==
    \/ Next
    \/ BookmarkDeleted

SpecRelist == InitRelist /\ [][NextRelist]_vars

\* the ? lines of the branches with heads, the bookmarks and the tags of a mirror
MirrorRefLines(r) ==
    {branch_line(b) : b \in {b \in r.branchmap : branchheads(r, b) # {}}}
        \cup {bookmark_line(b) : b \in r.bookmarks \ {"master"}}
        \cup {tag_line(t) : t \in r.tagslist \ {"tip"}}

\* C13: the ? lines of a list response are those of the mirror as it is when
\* the list is handled: what an earlier list of the session has listed and the
\* mirror has lost since is not listed again
C13_ListReflectsMirror ==
    (Answered("do_list") /\ response # <<"">>) =>
        {l \in Lines(response) : IsRefLine(l)} = MirrorRefLines(repo)
====
